---- MODULE Spec2Model ----
(***************************************************************************)
(* Sync/merge engine of the funding CRM: the Map-based sync handler, its   *)
(* notes resolver, insight extractor and Google-Sheets contact store.      *)
(***************************************************************************)
EXTENDS Integers, Sequences, FiniteSets, TLC

(***************************************************************************)
(* Bounds of the model                                                     *)
(***************************************************************************)
MaxEvents == 2
MaxAttendees == 2
MaxTime == 2
MaxSeedRows == 2

(***************************************************************************)
(* Strings: e-mail addresses and the string functions the code applies     *)
(***************************************************************************)
GOOGLE_SERVICE_EMAIL == "crm-sync@proj.iam.gserviceaccount.com"

\* addresses the sheet can hold, and those among them that attend events
Emails == {"a@x.com", "A@x.com", "b@gmail.com", "jake@viehq.com"}
AttendeeEmails == {"a@x.com", "A@x.com", "jake@viehq.com"}

\* String.prototype.toLowerCase on the addresses of the model
toLowerCase(s) ==
  CASE s = "A@x.com" -> "a@x.com"
    [] OTHER -> s

\* the substrings (among those the code searches for) that a lower-case
\* string contains
Substrings(s) ==
  CASE s = "a@x.com" -> {"@"}
    [] s = "b@gmail.com" -> {"@", "gmail.com"}
    [] s = "jake@viehq.com" -> {"@", "@viehq.com", "viehq.com"}
    [] s = "fred@fireflies.ai" -> {"@"}
    [] s = "jane@acmeventures.com" -> {"@"}
    [] OTHER -> {}

\* String.prototype.includes
includes(s, sub) == sub \in Substrings(s)

skipDomains ==
  {"@noreply.com", "@notifications.", "@calendly.com", "@zoom.us",
   "@teams.microsoft.com", "@meet.google.com"}

shouldSkipEmail(email) ==
  IF email = "" THEN TRUE
  ELSE LET emailLower == toLowerCase(email) IN
       IF \/ includes(emailLower, "@viehq.com")
          \/ emailLower = "fred@fireflies.ai"
          \/ emailLower = toLowerCase(GOOGLE_SERVICE_EMAIL)
       THEN TRUE
       ELSE IF \E domain \in skipDomains : includes(emailLower, domain)
            THEN TRUE
            ELSE FALSE

\* local part, separators to blanks, first letter of each word upper-cased
getNameFromEmail(email) ==
  CASE email = "a@x.com" -> "A"
    [] email = "A@x.com" -> "A"
    [] email = "b@gmail.com" -> "B"
    [] email = "jake@viehq.com" -> "Jake"
    [] email = "jane@acmeventures.com" -> "Jane"
    [] OTHER -> "Unknown Name"

(***************************************************************************)
(* Notes resolver                                                          *)
(***************************************************************************)
\* texts a note source can return, and their lengths in characters
FirefliesTexts == {"", "ff-hi", "ff-transcript"}
FirefliesEmailTexts == {"fe-recap"}
GmailTexts == {"gm-recap"}

StrLen(t) ==
  CASE t = "" -> 0
    [] t = "ff-hi" -> 11
    [] t = "ff-transcript" -> 9000
    [] t = "fe-recap" -> 4000
    [] t = "gm-recap" -> 8000
    [] t = "                              " -> 30
    [] OTHER -> 0

\* what one call of a source function does: return null, return a string,
\* or throw
Null == [kind |-> "null", text |-> ""]
Throw == [kind |-> "throw", text |-> ""]
Text(t) == [kind |-> "text", text |-> t]

FirefliesOutcomes == {Null, Throw} \cup {Text(t) : t \in FirefliesTexts}
FirefliesEmailOutcomes == {Null, Throw} \cup {Text(t) : t \in FirefliesEmailTexts}
GmailOutcomes == {Null, Throw} \cup {Text(t) : t \in GmailTexts}

\* the environment of one getMeetingNotes call: whether FIREFLIES_API_KEY is
\* set and what each source would answer
NotesEnvs ==
  [ffKey : BOOLEAN, ff : FirefliesOutcomes, fe : FirefliesEmailOutcomes,
   gm : GmailOutcomes]

\* JavaScript truthiness of a returned string
Truthy(o) == o.kind = "text" /\ o.text # ""

NoNotes == [content |-> "", source |-> "none"]

\* getFirefliesTranscript throws when the key is missing, otherwise the
\* provider answers
getFirefliesTranscript(env) ==
  IF ~env.ffKey THEN Throw ELSE env.ff

\* try { ... } catch (e) { logMessage(...) } around one source: a throw is
\* logged and leaves the source without a result
Caught(o) == IF o.kind = "throw" THEN Null ELSE o

NotesResult(t, n, c) == [threw |-> t, notes |-> n, calls |-> c]

\* a resolver whose second source is called outside a try block
getMeetingNotes_Uncaught(env) ==
  LET calls1 == IF env.ffKey THEN <<"Fireflies API">> ELSE <<>>
      ffTr == IF env.ffKey THEN Caught(getFirefliesTranscript(env)) ELSE Null
  IN IF Truthy(ffTr)
     THEN NotesResult(FALSE, [content |-> ffTr.text, source |-> "Fireflies API"],
                      calls1)
     ELSE IF env.fe.kind = "throw"
     THEN NotesResult(TRUE, NoNotes, Append(calls1, "Fireflies Email"))
     ELSE IF Truthy(env.fe)
     THEN NotesResult(FALSE, [content |-> env.fe.text,
                              source |-> "Fireflies Email"],
                      Append(calls1, "Fireflies Email"))
     ELSE IF Truthy(Caught(env.gm))
     THEN NotesResult(FALSE, [content |-> env.gm.text, source |-> "Gmail"],
                      Append(Append(calls1, "Fireflies Email"), "Gmail"))
     ELSE NotesResult(FALSE, NoNotes,
                      Append(Append(calls1, "Fireflies Email"), "Gmail"))

\* a resolver that searches the mailbox before the relayed transcript mail
getMeetingNotes_GmailFirst(env) ==
  LET calls1 == IF env.ffKey THEN <<"Fireflies API">> ELSE <<>>
      ffTr == IF env.ffKey THEN Caught(getFirefliesTranscript(env)) ELSE Null
  IN IF Truthy(ffTr)
     THEN NotesResult(FALSE, [content |-> ffTr.text, source |-> "Fireflies API"],
                      calls1)
     ELSE IF Truthy(Caught(env.gm))
     THEN NotesResult(FALSE, [content |-> env.gm.text, source |-> "Gmail"],
                      Append(calls1, "Gmail"))
     ELSE IF Truthy(Caught(env.fe))
     THEN NotesResult(FALSE, [content |-> env.fe.text,
                              source |-> "Fireflies Email"],
                      Append(Append(calls1, "Gmail"), "Fireflies Email"))
     ELSE NotesResult(FALSE, NoNotes,
                      Append(Append(calls1, "Gmail"), "Fireflies Email"))

\* getMeetingNotes: whether it threw, what it returned, and the sequence of
\* sources it called
getMeetingNotes(env) ==
  LET calls1 == IF env.ffKey THEN <<"Fireflies API">> ELSE <<>>
      ffTr == IF env.ffKey THEN Caught(getFirefliesTranscript(env)) ELSE Null
  IN IF Truthy(ffTr)
     THEN NotesResult(FALSE, [content |-> ffTr.text, source |-> "Fireflies API"],
                      calls1)
     ELSE LET calls2 == Append(calls1, "Fireflies Email")
              ffEm == Caught(env.fe)
          IN IF Truthy(ffEm)
             THEN NotesResult(FALSE, [content |-> ffEm.text,
                                      source |-> "Fireflies Email"],
                              calls2)
             ELSE LET calls3 == Append(calls2, "Gmail")
                      gmSum == Caught(env.gm)
                  IN IF Truthy(gmSum)
                     THEN NotesResult(FALSE, [content |-> gmSum.text,
                                              source |-> "Gmail"],
                                      calls3)
                     ELSE NotesResult(FALSE, NoNotes, calls3)

(***************************************************************************)
(* Insight extractor                                                       *)
(***************************************************************************)
Insight(s, n, t) == [status |-> s, nextStep |-> n, notes |-> t]

\* what reading a property the parsed object does not have yields
Missing == "undefined"

\* objects a language-model answer can carry: fields with a text, fields
\* with the empty text, fields that are missing
I1 == Insight("Interested", "Schedule follow-up", "Positive")
I2 == Insight("Passed", "Close out", "Not a fit")
LLMObjects ==
  {I1, I2, Insight("Interested", "", ""),
   Insight(Missing, "Call back", Missing),
   Insight("Passed", Missing, "Not a fit"),
   Insight(Missing, Missing, Missing)}

\* the shapes of a language-model answer: the call throws, the text is
\* empty, the text is one JSON object, the object in a ```json fence, one
\* object inside other text, two objects inside other text, text without
\* braces, braces around something that is no JSON, the JSON text null
LLMKinds ==
  {"throw", "empty", "json", "fenced", "embedded", "two", "garbage",
   "braces", "null"}
LLMReplies == [kind : LLMKinds, obj : LLMObjects]

AIKeys == {"openai", "gemini", "none"}

\* a text of thirty blanks
Blanks == "                              "

\* notesContent.trim().length
TrimLen(t) == IF t = Blanks THEN 0 ELSE StrLen(t)

\* a text that is put into the prompt whole
SubstringLen_Whole(t, n) == StrLen(t)

\* String.prototype.substring(0, n), as the length of the result
SubstringLen(t, n) == IF StrLen(t) < n THEN StrLen(t) ELSE n

\* a substitution that ignores the value at hand
OrElse_AlwaysDefault(x, d) == d

\* x || d on a string or a missing property
OrElse(x, d) == IF x # "" /\ x # Missing THEN x ELSE d

\* a catch that returns an Insight without fields
AIFailed_Empty(msg) == Insight("", "", "")

AIFailed(msg) == Insight("Manual Review", "Review AI", msg)

\* the inner try of analyzeWithAI: strict JSON.parse after removing the
\* fences, then the greedy match /{[\s\S]*}/ and a second JSON.parse
ParseReply(reply) ==
  CASE reply.kind \in {"json", "fenced", "embedded"} ->
         [ok |-> TRUE, obj |-> reply.obj, msg |-> ""]
    [] reply.kind \in {"two", "braces"} ->
         [ok |-> FALSE, obj |-> reply.obj, msg |-> "AI failed: Unexpected token"]
    [] reply.kind = "null" ->
         [ok |-> FALSE, obj |-> reply.obj,
          msg |-> "AI failed: Cannot read properties of null"]
    [] OTHER ->
         [ok |-> FALSE, obj |-> reply.obj,
          msg |-> "AI failed: AI response not valid JSON."]

\* a short-circuit test that only looks for an empty text
InsufficientContent_EmptyOnly(notesContent) == notesContent = ""

\* !notesContent || notesContent.trim().length < 20
InsufficientContent(notesContent) ==
  notesContent = "" \/ TrimLen(notesContent) < 20

\* analyzeWithAI(notesContent, contactName, sourceType) with the key that is
\* configured and the answer the model would give: whether it threw, the
\* Insight it returned, the model calls it made, the length of the note
\* text in its prompt
analyzeWithAI(notesContent, sourceType, aiKey, reply) ==
  IF InsufficientContent(notesContent)
  THEN [threw |-> FALSE,
        insight |-> Insight("Manual Review Needed",
                            "Insufficient content for AI",
                            "No meaningful content from " \o sourceType \o "."),
        llmCalls |-> 0, promptLen |-> 0]
  ELSE IF aiKey = "none"
  THEN [threw |-> TRUE, insight |-> Insight("", "", ""),
        llmCalls |-> 0, promptLen |-> 0]
  ELSE LET promptLen == SubstringLen(notesContent, 7000)
           ret(i) == [threw |-> FALSE, insight |-> i, llmCalls |-> 1,
                      promptLen |-> promptLen]
       IN IF reply.kind = "throw"
          THEN ret(AIFailed("AI failed: request failed"))
          ELSE IF reply.kind = "empty"
          THEN ret(AIFailed("AI failed: AI response empty."))
          ELSE LET pA == ParseReply(reply)
               IN IF ~pA.ok
                  THEN ret(AIFailed(pA.msg))
                  ELSE ret(Insight(OrElse(pA.obj.status, "Manual Review"),
                                   OrElse(pA.obj.nextStep, "Review AI"),
                                   OrElse(pA.obj.notes, "AI notes missing.")))

\* the calls of analyzeWithAI: note text, source kind, the key that is
\* configured, the answer the model would give
AITexts == {"", "ff-hi", Blanks, "fe-recap", "gm-recap", "ff-transcript"}
AISources == {"Fireflies API", "Fireflies Email", "Gmail"}
AICalls ==
  [notesContent : AITexts, sourceType : AISources, aiKey : AIKeys,
   reply : LLMReplies]

AINoCall ==
  [notesContent |-> "", sourceType |-> "Gmail", aiKey |-> "none",
   reply |-> [kind |-> "empty", obj |-> I1]]

AINotCalled ==
  [threw |-> FALSE, insight |-> Insight("", "", ""), llmCalls |-> 0 - 1,
   promptLen |-> 0]

(***************************************************************************)
(* Contacts, the sheet and the calendar                                    *)
(***************************************************************************)
Contact(n, e, i, lm, ca) ==
  [name |-> n, email |-> e, status |-> i.status, nextStep |-> i.nextStep,
   notes |-> i.notes, lastMeeting |-> lm, createdAt |-> ca]

\* a new contact without status and next step
NewContactInsight_Blank == Insight("", "", "")

NewContactInsight == Insight("New Contact", "Initial outreach", "")

\* timestamps are numbers; 0 is a blank cell, which `x || 0` turns into the
\* epoch
Times == 1..MaxTime

\* rows the sheet can hold before the first run of the model (left there by
\* earlier runs or by the sheet's owner); they were created at time 1
SeedRows ==
  {Contact(getNameFromEmail(e), e, NewContactInsight, lm, 1) :
     e \in Emails, lm \in Times}

SeqsUpTo(S, n) == UNION {[1..k -> S] : k \in 0..n}

SeedStores == SeqsUpTo(SeedRows, MaxSeedRows)

\* attendee lists: no address twice
AttendeeLists ==
  {l \in SeqsUpTo(AttendeeEmails, MaxAttendees) :
     \A i, j \in 1..Len(l) : i # j => l[i] # l[j]}

Titles == {"Intro call with Acme Ventures"}
Descriptions == {""}
Organizers == {"jake@viehq.com"}

Events ==
  [start : Times, summary : Titles, description : Descriptions,
   organizer : Organizers, attendees : AttendeeLists]

\* events.list with orderBy startTime: ascending start times
Calendars ==
  {c \in SeqsUpTo(Events, MaxEvents) :
     \A i \in 1..Len(c) - 1 : c[i].start <= c[i + 1].start}

\* a list of keywords that is empty
keywords_None == {}

keywords ==
  {"investor", "pitch", "intro", "funding", "vc", "investment", "demo",
   "meeting", "vie", "capital", "ventures", "fund", "consultation",
   "session", "call", "sync", "discussion"}

\* the keywords a lower-cased title or description contains
TitleKeywords(title) ==
  CASE title = "Intro call with Acme Ventures" -> {"intro", "call", "ventures"}
    [] title = "Q3 funding plan" -> {"funding", "fund"}
    [] OTHER -> {}

vcPatterns ==
  {"ventures?", "capital", "\\bfund\\b", "partners?", "investments?", "\\.vc",
   "@.*ventures", "@.*capital", "@.*fund"}

\* RegExp.prototype.test: the patterns of vcPatterns that match a text
PatternsIn(text) ==
  CASE text = "Intro call with Acme Ventures" -> {"ventures?"}
    [] text = "jane@acmeventures.com" -> {"ventures?", "@.*ventures"}
    [] OTHER -> {}

\* the filter of getCalendarEvents for one event
matchesFilter(event) ==
  LET title == event.summary
      description == event.description
      attendeeEmails == {toLowerCase(event.attendees[i]) :
                           i \in 1..Len(event.attendees)}
      organizerEmail == toLowerCase(event.organizer)
      hasKeywords ==
        \E k \in keywords :
          k \in TitleKeywords(title) \/ k \in TitleKeywords(description)
      hasVCPatterns ==
        \E pat \in vcPatterns :
          \/ pat \in PatternsIn(title)
          \/ pat \in PatternsIn(description)
          \/ \E e \in attendeeEmails : pat \in PatternsIn(e)
          \/ pat \in PatternsIn(organizerEmail)
      hasBizAttendees ==
        \E e \in attendeeEmails :
          /\ ~includes(e, "viehq.com")
          /\ ~includes(e, "gmail.com")
          /\ ~includes(e, "yahoo.com")
          /\ ~includes(e, "hotmail.com")
          /\ includes(e, "@")
  IN hasKeywords \/ hasVCPatterns \/ hasBizAttendees

\* a filter that hands the events back latest first
RECURSIVE getCalendarEvents_Reversed(_)
getCalendarEvents_Reversed(items) ==
  IF items = <<>> THEN <<>>
  ELSE LET rest == getCalendarEvents_Reversed(SubSeq(items, 2, Len(items)))
       IN IF matchesFilter(items[1]) THEN Append(rest, items[1]) ELSE rest

getCalendarEvents(items) == SelectSeq(items, matchesFilter)

\* a calendar with internal meetings, descriptions, outside organizers and
\* private addresses
WideTitles == {"Weekly Team Standup", "Intro call with Acme Ventures"}
WideDescriptions == {"", "Q3 funding plan"}
WideOrganizers == {"jake@viehq.com", "jane@acmeventures.com"}
WideAttendeeEmails == {"jake@viehq.com", "b@gmail.com", "a@x.com"}

WideAttendeeLists ==
  {l \in SeqsUpTo(WideAttendeeEmails, MaxAttendees) :
     \A i, j \in 1..Len(l) : i # j => l[i] # l[j]}

WideEvents ==
  [start : Times, summary : WideTitles, description : WideDescriptions,
   organizer : WideOrganizers, attendees : WideAttendeeLists]

WideCalendars ==
  {c \in SeqsUpTo(WideEvents, MaxEvents) :
     \A i \in 1..Len(c) - 1 : c[i].start <= c[i + 1].start}

\* a calendar in which at most one event lies in the window
ShortCalendars == SeqsUpTo(Events, 1)

\* events.list: what the calendar answers to a fetch
ListEvents(kind, isFetched, last) ==
  CASE kind = "wide" -> WideCalendars
    [] kind = "changing" -> ShortCalendars
    [] OTHER -> IF isFetched THEN {last} ELSE Calendars

\* getSheetContacts on a successful read: the rows below the header that
\* have an address the exclusion policy lets through
getSheetContacts(rows) ==
  SelectSeq(rows, LAMBDA c : c.email # "" /\ ~shouldSkipEmail(c.email))

\* a lookup that finds nothing
IndexOf_Never(contacts, email) == 0

\* Array.prototype.find / Map.prototype.get by address: the index of the
\* first entry with that address, 0 when there is none
IndexOf(contacts, email) ==
  IF \E i \in 1..Len(contacts) : contacts[i].email = email
  THEN CHOOSE i \in 1..Len(contacts) :
         /\ contacts[i].email = email
         /\ \A j \in 1..(i - 1) : contacts[j].email # email
  ELSE 0

\* the Map uniqueContacts of updateSheetContacts after the forEach: one entry
\* per address in insertion order, replaced by a later entry only when that
\* one has the later lastMeeting
RECURSIVE uniqueContacts(_)
uniqueContacts(contacts) ==
  IF contacts = <<>> THEN <<>>
  ELSE LET front == uniqueContacts(SubSeq(contacts, 1, Len(contacts) - 1))
           c == contacts[Len(contacts)]
           k == IndexOf(front, c.email)
       IN IF c.email = "" \/ shouldSkipEmail(c.email) THEN front
          ELSE IF k = 0 THEN Append(front, c)
          ELSE IF c.lastMeeting > front[k].lastMeeting
               THEN [front EXCEPT ![k] = c]
               ELSE front

\* a write that keeps every row of the sheet whose address is not among
\* the given rows
SheetsValuesUpdate_Merge(old, values) ==
  values \o SelectSeq(old, LAMBDA c :
                        \A i \in 1..Len(values) : values[i].email # c.email)

\* spreadsheets.values.update on Contacts!A:G: the header and the given
\* rows are written from the top of the range; rows of the sheet below the
\* last written row keep their values
SheetsValuesUpdate(old, values) ==
  values \o SubSeq(old, Len(values) + 1, Len(old))

(***************************************************************************)
(* The environment of one attendee's processing                            *)
(***************************************************************************)
CallEnv(k, ff, fe, gm, ai, r) ==
  [ffKey |-> k, ff |-> ff, fe |-> fe, gm |-> gm, aiKey |-> ai, reply |-> r]

\* what the note sources and the language model answer for one attendee of
\* one event: no notes anywhere; a transcript and a JSON answer; no
\* transcript key, a recap mail and another JSON answer
NoNotesEnv ==
  CallEnv(TRUE, Null, Null, Null, "openai", [kind |-> "json", obj |-> I1])

CallEnvs ==
  {NoNotesEnv,
   CallEnv(TRUE, Text("ff-transcript"), Null, Null, "openai",
           [kind |-> "json", obj |-> I1]),
   CallEnv(FALSE, Null, Throw, Text("gm-recap"), "gemini",
           [kind |-> "json", obj |-> I2])}

NotesEnvOf(env) ==
  [ffKey |-> env.ffKey, ff |-> env.ff, fe |-> env.fe, gm |-> env.gm]

(***************************************************************************)
(* State                                                                   *)
(***************************************************************************)
VARIABLES
  store,             \* rows of Contacts!A:G below the header
  lastSyncCell,      \* the cell recordSyncTimestamp writes (0: blank)
  now,               \* the clock
  fetched,           \* the calendar has answered once
  calendar,          \* the items events.list answers
  oracle,            \* position <<event, attendee>> -> answers of the sources
  pc,                \* per request: where the handler is
  calendarEvents,    \* per request: handler's calendarEvents
  existingContacts,  \* per request: handler's existingContacts
  processedContacts, \* per request: the Map, as its values in insertion order
  pos,               \* per request: <<event index, attendee index>> of the loops
  response,          \* per request: HTTP status answered (0: none yet)
  storeBefore,       \* per request: the store when the request arrived
  written,           \* per request: rows handed to values.update
  wrote,             \* per request: values.update succeeded
  readFailed,        \* per request: the sheet read threw
  failedAt,          \* per request: the step whose error reached the catch
  recorded,          \* per request: the timestamp it wrote to the marker cell
  summary,           \* per request: the body of the success answer
  envs,              \* the answers the sources and the model can give
  scenario,          \* what the calendar holds from one fetch to the next
  request,           \* per request: the secret supplied, the secret configured,
                     \* the method
  syncCell,          \* the cell Sync!B1 of the sheet (0: blank)
  dashboard,         \* the last answer of GET /api/contacts
  notesEnv,          \* notes resolver on its own: the environment of the call
  notesRet,          \* notes resolver on its own: what getMeetingNotes returned
  aiIn,              \* insight extractor on its own: the arguments of the call
  aiRet              \* insight extractor on its own: what analyzeWithAI did

vars ==
  <<store, lastSyncCell, now, fetched, calendar, oracle, pc, calendarEvents,
    existingContacts, processedContacts, pos, response, storeBefore, written,
    wrote, readFailed, failedAt, recorded, summary, envs, scenario, request,
    syncCell, dashboard, notesEnv, notesRet, aiIn, aiRet>>

storeVars == <<store, lastSyncCell>>
envVars == <<fetched, calendar, oracle, envs, scenario>>
loopVars == <<calendarEvents, existingContacts, processedContacts, pos>>
ghostVars == <<storeBefore, written, wrote, readFailed, request>>
dashVars == <<syncCell, dashboard>>
answerVars == <<failedAt, recorded, summary>>
notesVars == <<notesEnv, notesRet, aiIn, aiRet>>

Requests == {1, 2}

CRON_SECRET == "s3cret"
Secrets == {"", CRON_SECRET, "wrong"}
Methods == {"POST", "GET"}

\* process.env.CRON_SECRET: set, or not set ("" stands for undefined)
ConfiguredSecrets == {CRON_SECRET, ""}

NoRequest == [cronSecret |-> "", configured |-> "", method |-> ""]

\* a secret check that only compares
Unauthorized_CompareOnly(cronSecret, configured) == cronSecret # configured

\* !cronSecret || cronSecret !== process.env.CRON_SECRET
Unauthorized(cronSecret, configured) ==
  cronSecret = "" \/ cronSecret # configured

\* GET /api/contacts has not been asked
NotAsked == [status |-> 0, lastSync |-> 0, total |-> 0, marker |-> 0]

NotCalled == NotesResult(FALSE, NoNotes, <<"not called">>)

\* no success answer has been sent
NoSummary == [contactsProcessed |-> 0, eventsProcessed |-> 0, timestamp |-> 0]

InitRequests ==
  /\ pc = [p \in Requests |-> "idle"]
  /\ calendarEvents = [p \in Requests |-> <<>>]
  /\ existingContacts = [p \in Requests |-> <<>>]
  /\ processedContacts = [p \in Requests |-> <<>>]
  /\ pos = [p \in Requests |-> <<1, 1>>]
  /\ response = [p \in Requests |-> 0]
  /\ storeBefore = [p \in Requests |-> <<>>]
  /\ written = [p \in Requests |-> <<>>]
  /\ wrote = [p \in Requests |-> FALSE]
  /\ readFailed = [p \in Requests |-> FALSE]
  /\ failedAt = [p \in Requests |-> ""]
  /\ recorded = [p \in Requests |-> 0]
  /\ summary = [p \in Requests |-> NoSummary]
  /\ request = [p \in Requests |-> NoRequest]

InitStore ==
  /\ lastSyncCell = 0
  /\ now = 1
  /\ fetched = FALSE
  /\ calendar = <<>>
  /\ oracle = [q \in {} |-> 0]
  /\ dashboard = NotAsked
  /\ InitRequests

InitNotes ==
  /\ notesEnv = [ffKey |-> FALSE, ff |-> Null, fe |-> Null, gm |-> Null]
  /\ notesRet = NotCalled
  /\ aiIn = AINoCall
  /\ aiRet = AINotCalled

\* a sheet that holds any seed rows
Init ==
  /\ store \in SeedStores
  /\ envs = CallEnvs
  /\ scenario = "steady"
  /\ syncCell = 0
  /\ InitStore
  /\ InitNotes

(***************************************************************************)
(* The sync handler, one request p at a time                               *)
(***************************************************************************)
Set(f, p, v) == [f EXCEPT ![p] = v]

\* the position of the nested for-loops at or after <<e, a>>: the next
\* attendee that exists, <<Len + 1, 1>> when the events are used up
RECURSIVE Seek(_, _, _)
Seek(events, e, a) ==
  IF e > Len(events) THEN <<Len(events) + 1, 1>>
  ELSE IF a <= Len(events[e].attendees) THEN <<e, a>>
  ELSE Seek(events, e + 1, 1)

AfterLoop(events, q) == IF q[1] > Len(events) THEN "persisting" ELSE "processing"

\* the request arrives: secret and method checks
StartRun(p) ==
  /\ pc[p] = "idle"
  /\ now' = now + 1
  /\ \E cronSecret \in Secrets, configured \in ConfiguredSecrets,
        method \in Methods :
       /\ request' = Set(request, p, [cronSecret |-> cronSecret,
                                      configured |-> configured,
                                      method |-> method])
       /\ IF Unauthorized(cronSecret, configured)
          THEN /\ pc' = Set(pc, p, "done")
               /\ response' = Set(response, p, 401)
          ELSE IF method # "POST"
          THEN /\ pc' = Set(pc, p, "done")
               /\ response' = Set(response, p, 405)
          ELSE /\ pc' = Set(pc, p, "authorizing")
               /\ response' = Set(response, p, 0)
  /\ calendarEvents' = Set(calendarEvents, p, <<>>)
  /\ existingContacts' = Set(existingContacts, p, <<>>)
  /\ processedContacts' = Set(processedContacts, p, <<>>)
  /\ pos' = Set(pos, p, <<1, 1>>)
  /\ storeBefore' = Set(storeBefore, p, store)
  /\ written' = Set(written, p, <<>>)
  /\ wrote' = Set(wrote, p, FALSE)
  /\ readFailed' = Set(readFailed, p, FALSE)
  /\ UNCHANGED <<storeVars, envVars, answerVars, notesVars, dashVars>>

\* a catch that answers an error with the success status
Fail_AnswersSuccess(p, step) ==
  /\ pc' = Set(pc, p, "done")
  /\ response' = Set(response, p, 200)
  /\ failedAt' = Set(failedAt, p, step)

\* a catch that starts the run again
Fail_Retry(p, step) ==
  /\ pc' = Set(pc, p, "authorizing")
  /\ response' = Set(response, p, 0)
  /\ failedAt' = Set(failedAt, p, step)

\* a catch that logs the error and sends no answer
Fail_Silent(p, step) ==
  /\ pc' = Set(pc, p, "done")
  /\ response' = Set(response, p, 0)
  /\ failedAt' = Set(failedAt, p, step)

\* the catch of the handler: the error of a step is answered with 500
Fail(p, step) ==
  /\ pc' = Set(pc, p, "done")
  /\ response' = Set(response, p, 500)
  /\ failedAt' = Set(failedAt, p, step)

\* auth.authorize()
Authorize(p) ==
  /\ pc[p] = "authorizing"
  /\ \/ /\ pc' = Set(pc, p, "fetching")
        /\ UNCHANGED <<response, failedAt>>
     \/ Fail(p, "authorize")
  /\ UNCHANGED <<storeVars, now, envVars, loopVars, ghostVars, recorded,
                 summary, notesVars, dashVars>>

\* getCalendarEvents(auth): the list call, then the filter
FetchEvents(p) ==
  /\ pc[p] = "fetching"
  /\ \/ /\ \E items \in ListEvents(scenario, fetched, calendar) :
             /\ calendar' = items
             /\ calendarEvents' = Set(calendarEvents, p, getCalendarEvents(items))
        /\ fetched' = TRUE
        /\ pc' = Set(pc, p, "reading")
        /\ UNCHANGED <<response, failedAt, oracle, envs, scenario>>
     \/ /\ Fail(p, "fetch")
        /\ UNCHANGED <<envVars, calendarEvents>>
  /\ UNCHANGED <<storeVars, now, existingContacts, processedContacts, pos,
                 ghostVars, recorded, summary, notesVars, dashVars>>

\* getSheetContacts(auth): a read that throws is caught and answers []
ReadStore(p) ==
  /\ pc[p] = "reading"
  /\ \/ /\ existingContacts' = Set(existingContacts, p, getSheetContacts(store))
        /\ UNCHANGED readFailed
     \/ /\ existingContacts' = Set(existingContacts, p, <<>>)
        /\ readFailed' = Set(readFailed, p, TRUE)
  /\ LET q == Seek(calendarEvents[p], 1, 1)
     IN /\ pos' = Set(pos, p, q)
        /\ pc' = Set(pc, p, AfterLoop(calendarEvents[p], q))
  /\ UNCHANGED <<storeVars, now, envVars, calendarEvents, processedContacts,
                 response, storeBefore, written, wrote, request, answerVars,
                 notesVars, dashVars>>

\* an attendee's processing (lines 161-166) in which a throw of
\* analyzeWithAI is not caught
Enrich_Uncaught(contact, start, env) ==
  LET resolved == getMeetingNotes(NotesEnvOf(env))
      meetingNotes == IF resolved.threw THEN NoNotes ELSE resolved.notes
      analysis == analyzeWithAI(meetingNotes.content, meetingNotes.source,
                                env.aiKey, env.reply)
      c1 == IF meetingNotes = NoNotes \/ analysis.threw
            THEN contact
            ELSE [contact EXCEPT
                    !.status = OrElse(analysis.insight.status, @),
                    !.nextStep = OrElse(analysis.insight.nextStep, @),
                    !.notes = OrElse(analysis.insight.notes, @)]
  IN [threw |-> meetingNotes # NoNotes /\ analysis.threw,
      contact |-> IF start > c1.lastMeeting
                  THEN [c1 EXCEPT !.lastMeeting = start] ELSE c1]

\* lines 161-166 for one contact: notes, analysis, lastMeeting; both calls
\* sit in a try of their own, so nothing is thrown
Enrich(contact, start, env) ==
  LET resolved == getMeetingNotes(NotesEnvOf(env))
      meetingNotes == IF resolved.threw THEN NoNotes ELSE resolved.notes
      analysis == analyzeWithAI(meetingNotes.content, meetingNotes.source,
                                env.aiKey, env.reply)
      c1 == IF meetingNotes = NoNotes \/ analysis.threw
            THEN contact
            ELSE [contact EXCEPT
                    !.status = OrElse(analysis.insight.status, @),
                    !.nextStep = OrElse(analysis.insight.nextStep, @),
                    !.notes = OrElse(analysis.insight.notes, @)]
  IN [threw |-> FALSE,
      contact |-> IF start > c1.lastMeeting
                  THEN [c1 EXCEPT !.lastMeeting = start] ELSE c1]

\* the body of the inner loop for the attendee at pos[p]; an error thrown in
\* it is caught by the try around the event (line 169), which goes on with
\* the next event
ProcessAttendee(p) ==
  /\ pc[p] = "processing"
  /\ LET event == calendarEvents[p][pos[p][1]]
         email == event.attendees[pos[p][2]]
         start == event.start
         q == Seek(calendarEvents[p], pos[p][1], pos[p][2] + 1)
         qCatch == Seek(calendarEvents[p], pos[p][1] + 1, 1)
         k == IndexOf(processedContacts[p], email)
         x == IndexOf(existingContacts[p], email)
     IN IF shouldSkipEmail(email)
        THEN /\ pos' = Set(pos, p, q)
             /\ pc' = Set(pc, p, AfterLoop(calendarEvents[p], q))
             /\ UNCHANGED <<processedContacts, oracle>>
        ELSE \E env \in (IF pos[p] \in DOMAIN oracle THEN {oracle[pos[p]]}
                         ELSE envs) :
               /\ oracle' = [r \in DOMAIN oracle \cup {pos[p]} |->
                               IF r = pos[p] THEN env ELSE oracle[r]]
               /\ IF k # 0
                  THEN /\ processedContacts' =
                            Set(processedContacts, p,
                                IF start > processedContacts[p][k].lastMeeting
                                THEN [processedContacts[p] EXCEPT
                                        ![k].lastMeeting = start]
                                ELSE processedContacts[p])
                       /\ pos' = Set(pos, p, q)
                       /\ pc' = Set(pc, p, AfterLoop(calendarEvents[p], q))
                  ELSE LET contact ==
                             IF x # 0 THEN existingContacts[p][x]
                             ELSE Contact(getNameFromEmail(email), email,
                                          NewContactInsight, start, now)
                           enriched == Enrich(contact, start, env)
                       IN IF enriched.threw
                          THEN /\ UNCHANGED processedContacts
                               /\ pos' = Set(pos, p, qCatch)
                               /\ pc' = Set(pc, p,
                                            AfterLoop(calendarEvents[p], qCatch))
                          ELSE /\ processedContacts' =
                                    Set(processedContacts, p,
                                        Append(processedContacts[p],
                                               enriched.contact))
                               /\ pos' = Set(pos, p, q)
                               /\ pc' = Set(pc, p,
                                            AfterLoop(calendarEvents[p], q))
  /\ UNCHANGED <<storeVars, now, fetched, calendar, envs, scenario,
                 calendarEvents,
                 existingContacts, response, ghostVars, answerVars, notesVars, dashVars>>

\* lines 171-172: updateSheetContacts when the Map is not empty
Persist(p) ==
  /\ pc[p] = "persisting"
  /\ IF Len(processedContacts[p]) > 0
     THEN LET cleanedContacts == uniqueContacts(processedContacts[p])
          IN \/ /\ store' = SheetsValuesUpdate(store, cleanedContacts)
                /\ written' = Set(written, p, cleanedContacts)
                /\ wrote' = Set(wrote, p, TRUE)
                /\ pc' = Set(pc, p, "recording")
                /\ UNCHANGED <<response, failedAt>>
             \/ /\ Fail(p, "write")
                /\ UNCHANGED <<store, written, wrote>>
     ELSE /\ pc' = Set(pc, p, "recording")
          /\ UNCHANGED <<store, written, wrote, response, failedAt>>
  /\ UNCHANGED <<lastSyncCell, now, envVars, loopVars, storeBefore, readFailed,
                 request, recorded, summary, notesVars, dashVars>>

\* lines 173-174: recordSyncTimestamp writes its own reading of the clock
\* and swallows a failure of the write; the success answer carries a second
\* reading of the clock, taken after the write has returned
RecordCompletion(p) ==
  /\ pc[p] = "recording"
  /\ \/ /\ lastSyncCell' = now
        /\ recorded' = Set(recorded, p, now)
     \/ UNCHANGED <<lastSyncCell, recorded>>
  /\ \E elapsed \in {0, 1} : now' = now + elapsed
  /\ summary' = Set(summary, p,
                    [contactsProcessed |-> Len(processedContacts[p]),
                     eventsProcessed |-> Len(calendarEvents[p]),
                     timestamp |-> now'])
  /\ pc' = Set(pc, p, "done")
  /\ response' = Set(response, p, 200)
  /\ UNCHANGED <<store, envVars, loopVars, ghostVars, failedAt, notesVars, dashVars>>

Run(p) ==
  \/ StartRun(p)
  \/ Authorize(p)
  \/ FetchEvents(p)
  \/ ReadStore(p)
  \/ ProcessAttendee(p)
  \/ Persist(p)
  \/ RecordCompletion(p)

\* one request
Next == Run(1)

Spec == Init /\ [][Next]_vars

(***************************************************************************)
(* The notes resolver on its own                                           *)
(***************************************************************************)
\* getMeetingNotes is called in the environment at hand
ResolveNotes ==
  /\ notesRet = NotCalled
  /\ notesRet' = getMeetingNotes(notesEnv)
  /\ UNCHANGED <<storeVars, now, envVars, pc, loopVars, response,
                 ghostVars, answerVars, notesEnv, aiIn, aiRet, dashVars>>

\* the next call meets another environment
NextNotesCall ==
  /\ notesRet # NotCalled
  /\ notesEnv' \in NotesEnvs
  /\ notesRet' = NotCalled
  /\ UNCHANGED <<storeVars, now, envVars, pc, loopVars, response,
                 ghostVars, answerVars, aiIn, aiRet, dashVars>>

InitResolver ==
  /\ store = <<>>
  /\ envs = CallEnvs
  /\ scenario = "steady"
  /\ syncCell = 0
  /\ InitStore
  /\ notesEnv \in NotesEnvs
  /\ notesRet = NotCalled
  /\ aiIn = AINoCall
  /\ aiRet = AINotCalled

NextResolver == ResolveNotes \/ NextNotesCall

SpecResolver == InitResolver /\ [][NextResolver]_vars

(***************************************************************************)
(* The insight extractor on its own                                        *)
(***************************************************************************)
\* analyzeWithAI is called with the arguments at hand
Analyze ==
  /\ aiRet = AINotCalled
  /\ aiRet' = analyzeWithAI(aiIn.notesContent, aiIn.sourceType, aiIn.aiKey,
                            aiIn.reply)
  /\ UNCHANGED <<storeVars, now, envVars, pc, loopVars, response,
                 ghostVars, answerVars, notesEnv, notesRet, aiIn, dashVars>>

\* the next call has other arguments and meets another model answer
NextAnalyzeCall ==
  /\ aiRet # AINotCalled
  /\ aiIn' \in AICalls
  /\ aiRet' = AINotCalled
  /\ UNCHANGED <<storeVars, now, envVars, pc, loopVars, response,
                 ghostVars, answerVars, notesEnv, notesRet, dashVars>>

InitExtractor ==
  /\ store = <<>>
  /\ envs = CallEnvs
  /\ scenario = "steady"
  /\ syncCell = 0
  /\ InitStore
  /\ notesEnv = [ffKey |-> FALSE, ff |-> Null, fe |-> Null, gm |-> Null]
  /\ notesRet = NotCalled
  /\ aiIn \in AICalls
  /\ aiRet = AINotCalled

NextExtractor == Analyze \/ NextAnalyzeCall

SpecExtractor == InitExtractor /\ [][NextExtractor]_vars

(***************************************************************************)
(* Repeated requests against an unchanged calendar and unchanged sources   *)
(***************************************************************************)
InitRepeat ==
  /\ store = <<>>
  /\ envs = CallEnvs
  /\ scenario = "steady"
  /\ syncCell = 0
  /\ InitStore
  /\ InitNotes

\* the second request arrives when the first has been answered
NextRepeat ==
  \/ Run(1)
  \/ pc[1] = "done" /\ Run(2)

SpecRepeat == InitRepeat /\ [][NextRepeat]_vars

(***************************************************************************)
(* One request when the language model fails                               *)
(***************************************************************************)
\* notes are found for every attendee; the model has no key, its call
\* fails, its answer is not JSON, or it answers as asked
DegradedEnvs ==
  {CallEnv(TRUE, Text("ff-transcript"), Null, Null, "none",
           [kind |-> "json", obj |-> I1]),
   CallEnv(TRUE, Text("ff-transcript"), Null, Null, "openai",
           [kind |-> "throw", obj |-> I1]),
   CallEnv(FALSE, Null, Null, Text("gm-recap"), "gemini",
           [kind |-> "garbage", obj |-> I1]),
   CallEnv(TRUE, Text("ff-transcript"), Null, Null, "openai",
           [kind |-> "json", obj |-> I1])}

\* a sheet with at most one row
InitDegraded ==
  /\ store \in SeqsUpTo(SeedRows, 1)
  /\ envs = DegradedEnvs
  /\ scenario = "steady"
  /\ syncCell = 0
  /\ InitStore
  /\ InitNotes

SpecDegraded == InitDegraded /\ [][Next]_vars

(***************************************************************************)
(* One request whose external calls all return or fail                     *)
(***************************************************************************)
SpecLive == InitRepeat /\ [][Next]_vars /\ WF_vars(Next)

(***************************************************************************)
(* One request on a calendar with internal and outside meetings            *)
(***************************************************************************)
InitWide ==
  /\ store = <<>>
  /\ envs = {NoNotesEnv}
  /\ scenario = "wide"
  /\ syncCell = 0
  /\ InitStore
  /\ InitNotes

SpecWide == InitWide /\ [][Next]_vars

(***************************************************************************)
(* Two requests at the same time, the calendar changing between them       *)
(***************************************************************************)
InitConcurrent ==
  /\ store = <<>>
  /\ envs = {NoNotesEnv}
  /\ scenario = "changing"
  /\ syncCell = 0
  /\ InitStore
  /\ InitNotes

NextConcurrent == Run(1) \/ Run(2)

SpecConcurrent == InitConcurrent /\ [][NextConcurrent]_vars

(***************************************************************************)
(* The dashboard's GET /api/contacts beside one sync request               *)
(***************************************************************************)
\* the handler of contacts.js: method check, authorization, the read of
\* Contacts!A:G, the read of Sync!A1:B1 whose failure leaves lastSync null
GetContacts ==
  /\ \E method \in Methods :
       IF method # "GET"
       THEN dashboard' = [status |-> 405, lastSync |-> 0, total |-> 0,
                          marker |-> lastSyncCell]
       ELSE \/ dashboard' = [status |-> 500, lastSync |-> 0, total |-> 0,
                             marker |-> lastSyncCell]
            \/ \E syncRead \in {"ok", "throws"} :
                 dashboard' =
                   [status |-> 200,
                    lastSync |-> IF syncRead = "ok" THEN syncCell ELSE 0,
                    total |-> Len(SelectSeq(store, LAMBDA c : c.email # "")),
                    marker |-> lastSyncCell]
  /\ UNCHANGED <<storeVars, now, envVars, pc, loopVars, response, ghostVars,
                 answerVars, notesVars, syncCell>>

\* the sheet Sync is blank or holds the timestamp an earlier deployment
\* wrote
InitDashboard ==
  /\ store = <<>>
  /\ envs = {NoNotesEnv}
  /\ scenario = "steady"
  /\ syncCell \in {0, 1}
  /\ InitStore
  /\ InitNotes

NextDashboard == Run(1) \/ GetContacts

SpecDashboard == InitDashboard /\ [][NextDashboard]_vars

(***************************************************************************)
(* Properties                                                              *)
(***************************************************************************)
\* request p was answered with the success summary
Succeeded(p) == pc[p] = "done" /\ response[p] = 200

Rows(contacts) == 1..Len(contacts)

Max(S) == CHOOSE m \in S : \A n \in S : n <= m

\* the start times of the selected events that list the address
StartsOf(events, email) ==
  {events[e].start : e \in {e \in Rows(events) :
     \E a \in Rows(events[e].attendees) : events[e].attendees[a] = email}}

\* C1: the rows a successful run hands to the store hold at most one
\* contact per lower-cased address.
C1_OnePerNormalizedEmail ==
  \A p \in Requests :
    Succeeded(p) /\ wrote[p] =>
      \A i, j \in Rows(written[p]) :
        i # j => toLowerCase(written[p][i].email) # toLowerCase(written[p][j].email)

\* C2: a row a run writes for an address that was in the store before the
\* run has a lastMeeting that is not lower than the stored one.
C2_LastMeetingNeverDecreases ==
  \A p \in Requests :
    Succeeded(p) /\ wrote[p] =>
      \A i \in Rows(written[p]) :
        LET k == IndexOf(storeBefore[p], written[p][i].email)
        IN k # 0 => written[p][i].lastMeeting >= storeBefore[p][k].lastMeeting

\* C3: the lastMeeting of every row a run writes is the maximum of the
\* stored lastMeeting of that address, if any, and the start times of the
\* selected events that list the address.
C3_LastMeetingIsMaximum ==
  \A p \in Requests :
    Succeeded(p) /\ wrote[p] =>
      \A i \in Rows(written[p]) :
        LET email == written[p][i].email
            k == IndexOf(storeBefore[p], email)
            stored == IF k # 0 THEN {storeBefore[p][k].lastMeeting} ELSE {}
        IN written[p][i].lastMeeting =
             Max(stored \cup StartsOf(calendarEvents[p], email))

\* C4: a row a run writes for an address that was in the store with
\* createdAt set keeps that createdAt, and createdAt = now is given only to
\* an address that was not in the store.
C4_CreatedAtImmutable ==
  \A p \in Requests :
    Succeeded(p) /\ wrote[p] =>
      \A i \in Rows(written[p]) :
        LET k == IndexOf(storeBefore[p], written[p][i].email)
        IN /\ (k # 0 /\ storeBefore[p][k].createdAt # 0) =>
                written[p][i].createdAt = storeBefore[p][k].createdAt
           /\ written[p][i].createdAt = now => k = 0

\* C5: after a successful run the store holds no row whose address the
\* exclusion policy matches.
C5_NoExcludedEmailInStore ==
  \A p \in Requests :
    Succeeded(p) => \A i \in Rows(store) : ~shouldSkipEmail(store[i].email)

\* C6: every contact with a non-excluded address that was in the store
\* before a successful run is in the store after it.
C6_NeverDeletes ==
  \A p \in Requests :
    Succeeded(p) =>
      \A i \in Rows(storeBefore[p]) :
        ~shouldSkipEmail(storeBefore[p][i].email) =>
          \E j \in Rows(store) :
            toLowerCase(store[j].email) = toLowerCase(storeBefore[p][i].email)

\* the Insight the sources and the model hold for one attendee of one event
HasInsight(env) ==
  LET r == getMeetingNotes(NotesEnvOf(env))
  IN /\ ~r.threw
     /\ r.notes # NoNotes
     /\ ~analyzeWithAI(r.notes.content, r.notes.source, env.aiKey, env.reply).threw

InsightOf(env) ==
  LET r == getMeetingNotes(NotesEnvOf(env))
  IN analyzeWithAI(r.notes.content, r.notes.source, env.aiKey, env.reply).insight

\* C7: when an address is an attendee of two selected events of a run and
\* the notes resolve to an Insight for both, the contact the run writes has
\* the status, nextStep and notes of the later event's Insight.
C7_LaterInsightWins ==
  \A p \in Requests :
    Succeeded(p) /\ wrote[p] =>
      \A q1, q2 \in DOMAIN oracle :
        LET email == calendarEvents[p][q2[1]].attendees[q2[2]]
            k == IndexOf(written[p], email)
        IN ( /\ q1[1] < q2[1]
             /\ q2[1] = Len(calendarEvents[p])
             /\ calendarEvents[p][q1[1]].attendees[q1[2]] = email
             /\ HasInsight(oracle[q1])
             /\ HasInsight(oracle[q2])
             /\ k # 0 )
           => /\ written[p][k].status = InsightOf(oracle[q2]).status
              /\ written[p][k].nextStep = InsightOf(oracle[q2]).nextStep
              /\ written[p][k].notes = InsightOf(oracle[q2]).notes

\* C8: a second successful run on the same calendar events and the same
\* answers of the note sources and of the model leaves the store as the
\* first successful run left it.
C8_Idempotent ==
  (Succeeded(1) /\ Succeeded(2)) => store = storeBefore[2]

\* the note sources in their priority order
SourceOrder == <<"Fireflies API", "Fireflies Email", "Gmail">>

Rank(source) == CHOOSE i \in 1..3 : SourceOrder[i] = source

\* what a source answers in an environment
Answer(env, source) ==
  CASE source = "Fireflies API" -> getFirefliesTranscript(env)
    [] source = "Fireflies Email" -> env.fe
    [] OTHER -> env.gm

Yields(env, source) == Truthy(Answer(env, source))

Resolved == notesRet # NotCalled

\* C9: getMeetingNotes calls the sources in the order transcript provider,
\* relayed transcript mail, mail search; what it returns is the text of the
\* first source in that order that yields content, tagged with that source,
\* and that source is the last one it called.
C9_FirstSuccessInFixedOrder ==
  Resolved =>
    LET calls == notesRet.calls
        notes == notesRet.notes
    IN /\ \A i \in 1..Len(calls) : calls[i] \in {"Fireflies API", "Fireflies Email", "Gmail"}
       /\ \A i, j \in 1..Len(calls) : i < j => Rank(calls[i]) < Rank(calls[j])
       /\ notes # NoNotes =>
            /\ notes.source \in {"Fireflies API", "Fireflies Email", "Gmail"}
            /\ Yields(notesEnv, notes.source)
            /\ notes.content = Answer(notesEnv, notes.source).text
            /\ \A i \in 1..3 :
                 i < Rank(notes.source) => ~Yields(notesEnv, SourceOrder[i])
            /\ calls # <<>> /\ calls[Len(calls)] = notes.source

\* a relayed transcript mail is returned although the mail search would
\* have found a recap too, after the transcript provider found nothing
C9_Witness ==
  /\ Resolved
  /\ notesEnv.ffKey
  /\ notesEnv.ff = Null
  /\ Truthy(notesEnv.gm)
  /\ notesRet.notes.source = "Fireflies Email"
  /\ notesRet.calls = <<"Fireflies API", "Fireflies Email">>

\* C10: getMeetingNotes never throws; a source is called whenever every
\* source before it failed or found nothing (the transcript provider is
\* left out without its key); "no notes" is returned only when no source
\* yields content.
C10_SourceFailureIsNotFatal ==
  Resolved =>
    LET called == {notesRet.calls[i] : i \in 1..Len(notesRet.calls)}
    IN /\ ~notesRet.threw
       /\ \A i \in 1..3 :
            ( /\ \A j \in 1..(i - 1) : ~Yields(notesEnv, SourceOrder[j])
              /\ (i = 1 => notesEnv.ffKey) )
            => SourceOrder[i] \in called
       /\ notesRet.notes = NoNotes =>
            \A i \in 1..3 : ~Yields(notesEnv, SourceOrder[i])

\* the transcript provider and the relayed-mail search both throw and the
\* mail search still delivers the notes
C10_Witness ==
  /\ Resolved
  /\ notesEnv.ffKey
  /\ notesEnv.ff = Throw
  /\ notesEnv.fe = Throw
  /\ notesRet.notes.source = "Gmail"
  /\ notesRet.calls = <<"Fireflies API", "Fireflies Email", "Gmail">>

\* analyzeWithAI has been called and has returned or thrown
Analyzed == aiRet # AINotCalled

\* C11: analyzeWithAI never throws, whatever the note text, the configured
\* key and the answer of the model are, and the Insight it returns has
\* status, nextStep and notes set.
C11_NeverRaises ==
  Analyzed =>
    /\ ~aiRet.threw
    /\ aiRet.insight.status # ""
    /\ aiRet.insight.nextStep # ""
    /\ aiRet.insight.notes # ""

\* C12: for a note text that is empty or shorter than 20 characters
\* analyzeWithAI returns the "insufficient content" Insight and calls no
\* language model.
C12_ShortNotesSkipModel ==
  (Analyzed /\ StrLen(aiIn.notesContent) < 20) =>
    /\ ~aiRet.threw
    /\ aiRet.insight.status = "Manual Review Needed"
    /\ aiRet.insight.nextStep = "Insufficient content for AI"
    /\ aiRet.insight.notes # ""
    /\ aiRet.llmCalls = 0

\* an eleven-character note with a key configured and a model that would
\* answer well: the model was not asked
C12_Witness ==
  /\ Analyzed
  /\ aiIn.notesContent = "ff-hi"
  /\ aiIn.aiKey = "openai"
  /\ aiIn.reply = [kind |-> "json", obj |-> I1]
  /\ aiRet.insight.status = "Manual Review Needed"
  /\ aiRet.llmCalls = 0

\* the model was asked: the note text is long enough and a key is set
ModelAsked == Analyzed /\ ~aiRet.threw /\ aiRet.llmCalls = 1

\* C13: when the answer of the model is no JSON as a whole and holds a
\* well-formed object inside other text, analyzeWithAI returns the fields
\* of the first such object; when no object can be recovered it returns
\* the default Insight.
C13_RecoversEmbeddedObject ==
  ModelAsked =>
    /\ aiIn.reply.kind \in {"embedded", "two"} =>
         /\ aiRet.insight.status = aiIn.reply.obj.status
         /\ aiRet.insight.nextStep = OrElse(aiIn.reply.obj.nextStep, "Review AI")
         /\ aiRet.insight.notes = OrElse(aiIn.reply.obj.notes, "AI notes missing.")
    /\ aiIn.reply.kind \in {"garbage", "braces"} =>
         /\ aiRet.insight.status = "Manual Review"
         /\ aiRet.insight.nextStep = "Review AI"

\* C14: a run whose store read failed ends with the failure answer, has
\* written no rows and no marker, and leaves the store as it was.
C14_ReadFailureIsFatal ==
  \A p \in Requests :
    (pc[p] = "done" /\ readFailed[p]) =>
      /\ response[p] = 500
      /\ ~wrote[p]
      /\ recorded[p] = 0
      /\ store = storeBefore[p]

\* C15: when authorization, the calendar fetch or the store write fails,
\* the run is over at once and is answered with the one error answer, it
\* has recorded no marker, and when the failure came before the write step
\* no rows were written and the store is as it was.
C15_FatalFailures ==
  \A p \in Requests :
    failedAt[p] # "" =>
      /\ pc[p] = "done"
      /\ response[p] = 500
      /\ summary[p] = NoSummary
      /\ recorded[p] = 0
      /\ failedAt[p] \in {"authorize", "fetch"} =>
           ~wrote[p] /\ store = storeBefore[p]

\* the write of a run on a sheet with a row fails after a contact was
\* processed
C15_Witness ==
  /\ pc[1] = "done"
  /\ failedAt[1] = "write"
  /\ response[1] = 500
  /\ Len(processedContacts[1]) > 0
  /\ Len(storeBefore[1]) > 0
  /\ lastSyncCell = 0

\* positions of the loops in the order they are visited
Before(q1, q2) == q1[1] < q2[1] \/ (q1[1] = q2[1] /\ q1[2] < q2[2])

\* the loops of request p have come to their end
LoopsDone(p) ==
  \/ pc[p] \in {"persisting", "recording"}
  \/ Succeeded(p)
  \/ pc[p] = "done" /\ failedAt[p] = "write"

\* the non-excluded attendees of the selected events of request p
Attendees(p) ==
  {calendarEvents[p][e].attendees[a] :
     <<e, a>> \in {q \in Rows(calendarEvents[p]) \X (1..MaxAttendees) :
                     q[2] <= Len(calendarEvents[p][q[1]].attendees)}}

\* analyzeWithAI throws in this environment
ExtractionThrows(env) ==
  LET r == getMeetingNotes(NotesEnvOf(env))
  IN /\ r.notes # NoNotes
     /\ analyzeWithAI(r.notes.content, r.notes.source, env.aiKey, env.reply).threw

\* C16: whatever the note sources and the model do for an attendee, the
\* loops go on: at their end every non-excluded attendee of every selected
\* event has a contact, the only errors a run is answered with are those of
\* authorization, fetch and write, and a successful run has written a
\* row for every such attendee.
C16_AttendeeFailureDoesNotAbort ==
  \A p \in Requests :
    /\ LoopsDone(p) =>
         \A email \in Attendees(p) :
           ~shouldSkipEmail(email) => IndexOf(processedContacts[p], email) # 0
    /\ response[p] = 500 => failedAt[p] \in {"authorize", "fetch", "write"}
    /\ (Succeeded(p) /\ processedContacts[p] # <<>>) =>
         /\ wrote[p]
         /\ \A email \in Attendees(p) :
              ~shouldSkipEmail(email) => IndexOf(written[p], email) # 0

\* the extraction throws for the first attendee of an event, the second
\* attendee is processed all the same and the run writes both and succeeds
C16_Witness ==
  /\ Succeeded(1)
  /\ wrote[1]
  /\ <<1, 1>> \in DOMAIN oracle
  /\ <<1, 2>> \in DOMAIN oracle
  /\ ExtractionThrows(oracle[<<1, 1>>])
  /\ Len(written[1]) = 2

\* the model was asked about notes that were found and failed to deliver
ExtractionFailed(env) ==
  LET r == getMeetingNotes(NotesEnvOf(env))
  IN /\ r.notes # NoNotes
     /\ ~InsufficientContent(r.notes.content)
     /\ env.aiKey # "none"
     /\ env.reply.kind \in {"throw", "empty", "garbage", "two", "braces", "null"}

\* C17: when notes were found for a contact and the model call failed or
\* its answer could not be parsed, the row the run writes for the contact
\* has status 'Manual Review', nextStep 'Review AI' and notes that tell of
\* the failure, whatever the store held for the contact.
C17_DefaultsAreWritten ==
  \A p \in Requests :
    (Succeeded(p) /\ wrote[p]) =>
      \A q \in DOMAIN oracle :
        LET email == calendarEvents[p][q[1]].attendees[q[2]]
            k == IndexOf(written[p], email)
            first == \A q0 \in DOMAIN oracle :
                       Before(q0, q) =>
                         calendarEvents[p][q0[1]].attendees[q0[2]] # email
        IN (first /\ ExtractionFailed(oracle[q])) =>
             /\ k # 0
             /\ written[p][k].status = "Manual Review"
             /\ written[p][k].nextStep = "Review AI"
             /\ written[p][k].notes \in
                  {"AI failed: request failed",
                   "AI failed: AI response not valid JSON."}

\* a stored contact with status 'New Contact' is read, notes are found, the
\* model's answer cannot be parsed, and the row written has 'Manual Review'
C17_Witness ==
  /\ Succeeded(1)
  /\ wrote[1]
  /\ ~readFailed[1]
  /\ <<1, 1>> \in DOMAIN oracle
  /\ oracle[<<1, 1>>].reply.kind = "garbage"
  /\ oracle[<<1, 1>>].aiKey # "none"
  /\ Len(existingContacts[1]) = 1
  /\ existingContacts[1][1].email = calendarEvents[1][1].attendees[1]
  /\ existingContacts[1][1].status = "New Contact"
  /\ written[1][1].email = existingContacts[1][1].email
  /\ written[1][1].status = "Manual Review"

\* the steps of a run in their order
StepRank(step) ==
  CASE step = "idle" -> 0
    [] step = "authorizing" -> 1
    [] step = "fetching" -> 2
    [] step = "reading" -> 3
    [] step = "processing" -> 4
    [] step = "persisting" -> 5
    [] step = "recording" -> 6
    [] OTHER -> 7

\* the steps that can follow a step
StepsAfter(step) ==
  CASE step = "idle" -> {"authorizing", "done"}
    [] step = "authorizing" -> {"fetching", "done"}
    [] step = "fetching" -> {"reading", "done"}
    [] step = "reading" -> {"processing", "persisting"}
    [] step = "processing" -> {"processing", "persisting"}
    [] step = "persisting" -> {"recording", "done"}
    [] step = "recording" -> {"done"}
    [] OTHER -> {}

\* C18: a run goes through authorize, fetch, read, process, persist and
\* record in this order; it never returns to a step it has left and the
\* loop only moves forward through the attendees; an answered run takes no
\* further step; the marker is written in the record step only, after the
\* rows of the run, if it has any, were written.
C18_LinearRun ==
  [][\A p \in Requests :
       /\ pc'[p] # pc[p] =>
            /\ pc'[p] \in StepsAfter(pc[p])
            /\ StepRank(pc'[p]) > StepRank(pc[p])
       /\ (pc'[p] = pc[p] /\ pos'[p] # pos[p]) =>
            pc[p] = "processing" /\ Before(pos[p], pos'[p])
       /\ pc[p] = "done" =>
            /\ pc'[p] = "done"
            /\ response'[p] = response[p]
            /\ wrote'[p] = wrote[p]
            /\ recorded'[p] = recorded[p]
       /\ recorded'[p] # recorded[p] =>
            /\ pc[p] = "recording"
            /\ processedContacts[p] # <<>> => wrote[p]
       /\ wrote'[p] # wrote[p] => pc[p] \in {"idle", "persisting"}
    ]_vars

\* a run that went through every step: it wrote rows and then the marker
C18_Witness ==
  /\ Succeeded(1)
  /\ wrote[1]
  /\ recorded[1] # 0
  /\ Len(calendarEvents[1]) = 2
  /\ Len(written[1]) = 2

\* C19: when a run has answered with the success summary, the marker cell
\* holds a timestamp this run wrote, and it is the timestamp of the summary.
C19_MarkerMatchesSummary ==
  \A p \in Requests :
    Succeeded(p) =>
      /\ recorded[p] # 0
      /\ recorded[p] = summary[p].timestamp

\* C20: a request that has arrived is answered, and is answered once: an
\* answer is sent exactly when the handler ends, it is 200, 401, 405 or 500,
\* it is never replaced by another, and every request that has arrived
\* comes to its end.
C20_AnsweredExactlyOnce ==
  /\ [](\A p \in Requests :
          /\ pc[p] = "done" <=> response[p] # 0
          /\ response[p] \in {0, 200, 401, 405, 500})
  /\ [][\A p \in Requests :
          response[p] # 0 => response'[p] = response[p]]_vars
  /\ \A p \in {1} : (pc[p] = "idle") ~> (pc[p] = "done" /\ response[p] # 0)

\* a request that came as far as the write, which failed, has its one answer
C20_Witness ==
  /\ pc[1] = "done"
  /\ response[1] = 500
  /\ failedAt[1] = "write"

\* the secret of a request is missing or is not the configured one
BadSecret(r) == r.cronSecret = "" \/ r.cronSecret # r.configured

\* C21: a request whose secret is missing or differs from CRON_SECRET, also
\* when CRON_SECRET is not set, is answered 401 at once: it has fetched no
\* events, read and written no rows and no marker, and the step that
\* answers it leaves the sheet and the calendar's state untouched.
C21_BadSecretIsRejected ==
  /\ [](\A p \in Requests :
          (pc[p] # "idle" /\ BadSecret(request[p])) =>
            /\ pc[p] = "done"
            /\ response[p] = 401
            /\ calendarEvents[p] = <<>>
            /\ existingContacts[p] = <<>>
            /\ ~readFailed[p]
            /\ ~wrote[p]
            /\ recorded[p] = 0
            /\ failedAt[p] = ""
            /\ summary[p] = NoSummary)
  /\ [][\A p \in Requests :
          (pc[p] = "idle" /\ pc'[p] # "idle" /\ BadSecret(request'[p])) =>
            UNCHANGED <<store, lastSyncCell, fetched, calendar, oracle>>]_vars

\* a request with a secret is rejected while CRON_SECRET is not configured
C21_Witness ==
  /\ pc[1] = "done"
  /\ response[1] = 401
  /\ request[1].cronSecret = "wrong"
  /\ request[1].configured = ""
  /\ request[1].method = "POST"
  /\ ~fetched

\* no notes are found for the address on any event of the run
NoNotesFor(p, email) ==
  \A q \in DOMAIN oracle :
    (/\ q[1] <= Len(calendarEvents[p])
     /\ q[2] <= Len(calendarEvents[p][q[1]].attendees)
     /\ calendarEvents[p][q[1]].attendees[q[2]] = email)
    => getMeetingNotes(NotesEnvOf(oracle[q])).notes = NoNotes

\* the store held no row for the address when the request arrived
Absent(p, email) ==
  \A j \in Rows(storeBefore[p]) :
    toLowerCase(storeBefore[p][j].email) # toLowerCase(email)

\* C22: when the rows of a run have been written, every non-excluded
\* attendee has a row, and the row of an address that was not in the store
\* and for which no notes were found has status 'New Contact', nextStep
\* 'Initial outreach', createdAt equal to the clock of the run and
\* lastMeeting equal to the latest start of the events that list it.
C22_NewContactDefaults ==
  \A p \in Requests :
    (pc[p] = "recording" /\ wrote[p]) =>
      /\ \A email \in Attendees(p) :
           ~shouldSkipEmail(email) =>
             \E i \in Rows(written[p]) : written[p][i].email = email
      /\ \A i \in Rows(written[p]) :
           LET c == written[p][i]
           IN (Absent(p, c.email) /\ NoNotesFor(p, c.email)) =>
                /\ c.status = "New Contact"
                /\ c.nextStep = "Initial outreach"
                /\ c.createdAt = now
                /\ c.lastMeeting = Max(StartsOf(calendarEvents[p], c.email))

\* an address unknown to an empty sheet is seen on two events without notes
C22_Witness ==
  /\ pc[1] = "recording"
  /\ wrote[1]
  /\ storeBefore[1] = <<>>
  /\ Len(calendarEvents[1]) = 2
  /\ calendarEvents[1][1].start = 1
  /\ calendarEvents[1][2].start = 2
  /\ calendarEvents[1][1].attendees = <<"a@x.com">>
  /\ calendarEvents[1][2].attendees = <<"a@x.com">>
  /\ NoNotesFor(1, "a@x.com")
  /\ written[1] = <<Contact("A", "a@x.com",
                            Insight("New Contact", "Initial outreach", ""),
                            2, now)>>

\* request p has its list of selected events
Selected(p) ==
  pc[p] \in {"reading", "processing", "persisting", "recording"}
    \/ Succeeded(p)

\* the part of an address after the @
DomainOf(email) ==
  CASE email \in {"jake@viehq.com"} -> "viehq.com"
    [] email \in {"b@gmail.com"} -> "gmail.com"
    [] email \in {"a@x.com", "A@x.com"} -> "x.com"
    [] email \in {"jane@acmeventures.com"} -> "acmeventures.com"
    [] OTHER -> ""

\* the three criteria of the Event Selector for one event
Relevant(event) ==
  LET texts == {event.summary, event.description}
      addresses == {event.attendees[i] : i \in Rows(event.attendees)}
  IN \/ \E t \in texts : TitleKeywords(t) # {}
     \/ \E t \in texts \cup addresses \cup {event.organizer} :
          PatternsIn(t) # {}
     \/ \E a \in addresses :
          DomainOf(a) \notin {"viehq.com", "gmail.com", "yahoo.com",
                              "hotmail.com"}

ValidPos(p, q) ==
  /\ q[1] \in Rows(calendarEvents[p])
  /\ q[2] \in Rows(calendarEvents[p][q[1]].attendees)

Positions(p) ==
  {q \in (1..MaxEvents) \X (1..MaxAttendees) : ValidPos(p, q)}

\* C24: the selected events are the matching events of the calendar's
\* answer in the order of that answer, none dropped and none repeated, so
\* by ascending start; and the loops visit the attendees of the first
\* event in list order, then those of the next, each position once.
C24_AscendingOrderEachOnce ==
  /\ [](\A p \in Requests :
          Selected(p) =>
            /\ \E f \in [Rows(calendarEvents[p]) -> Rows(calendar)] :
                 /\ \A j \in Rows(calendarEvents[p]) :
                      calendarEvents[p][j] = calendar[f[j]]
                 /\ \A j, k \in Rows(calendarEvents[p]) :
                      j < k => f[j] < f[k]
                 /\ \A i \in Rows(calendar) :
                      matchesFilter(calendar[i]) <=>
                        \E j \in Rows(calendarEvents[p]) : f[j] = i
            /\ \A j, k \in Rows(calendarEvents[p]) :
                 j < k => calendarEvents[p][j].start
                            <= calendarEvents[p][k].start)
  /\ [][\A p \in Requests :
          (pc[p] = "reading" /\ pc'[p] # "reading") =>
            IF pc'[p] = "processing"
            THEN /\ ValidPos(p, pos'[p])
                 /\ \A r \in Positions(p) :
                      r = pos'[p] \/ Before(pos'[p], r)
            ELSE Positions(p) = {}]_vars
  /\ [][\A p \in Requests :
          pc[p] = "processing" =>
            /\ ValidPos(p, pos[p])
            /\ IF pc'[p] = "processing"
               THEN \/ pos'[p] = pos[p]
                    \/ /\ ValidPos(p, pos'[p])
                       /\ Before(pos[p], pos'[p])
                       /\ \A r \in Positions(p) :
                            ~(Before(pos[p], r) /\ Before(r, pos'[p]))
               ELSE \A r \in Positions(p) : ~Before(pos[p], r)]_vars

\* two events at different times, both selected, two attendees each, all
\* four positions visited
C24_Witness ==
  /\ pc[1] = "persisting"
  /\ Len(calendar) = 2
  /\ calendarEvents[1] = calendar
  /\ calendar[1].start = 1
  /\ calendar[2].start = 2
  /\ calendar[1].attendees = <<"a@x.com", "b@gmail.com">>
  /\ calendar[2].attendees = <<"b@gmail.com", "a@x.com">>
  /\ Len(processedContacts[1]) = 2
  /\ processedContacts[1][1].email = "a@x.com"
  /\ processedContacts[1][2].email = "b@gmail.com"
  /\ processedContacts[1][1].lastMeeting = 2
  /\ processedContacts[1][2].lastMeeting = 2

\* the model's answer was parsed into an object
ParsedObject == ModelAsked /\ aiIn.reply.kind \in {"json", "fenced", "embedded"}

\* the parsed object has no usable value for a field
Lacks(x) == x = Missing \/ x = ""

\* C25: when the model's answer parses into an object, the Insight
\* returned has, for each of status, nextStep and notes, the default
\* ('Manual Review', 'Review AI', 'AI notes missing.') where the object
\* lacks the field and the object's value where it has one; the call does
\* not throw and no field of the Insight is unset.
C25_DefaultsPerMissingField ==
  ParsedObject =>
    LET obj == aiIn.reply.obj
        ins == aiRet.insight
    IN /\ ~aiRet.threw
       /\ ins.status = IF Lacks(obj.status) THEN "Manual Review" ELSE obj.status
       /\ ins.nextStep = IF Lacks(obj.nextStep) THEN "Review AI" ELSE obj.nextStep
       /\ ins.notes = IF Lacks(obj.notes) THEN "AI notes missing." ELSE obj.notes
       /\ ~Lacks(ins.status) /\ ~Lacks(ins.nextStep) /\ ~Lacks(ins.notes)

\* an answer that carries only nextStep
C25_Witness ==
  /\ ParsedObject
  /\ aiIn.reply.obj = Insight(Missing, "Call back", Missing)
  /\ aiRet.insight = Insight("Manual Review", "Call back", "AI notes missing.")

\* C28: the note text in a prompt sent to the model is the first 7000
\* characters of the notes: as long as the notes when they are shorter,
\* 7000 characters otherwise, whichever source the notes came from.
C28_PromptNotesAtMost7000 ==
  ModelAsked =>
    /\ aiRet.promptLen <= 7000
    /\ aiRet.promptLen = IF StrLen(aiIn.notesContent) <= 7000
                         THEN StrLen(aiIn.notesContent) ELSE 7000

\* a transcript of 9000 characters from the Fireflies API is cut to 7000
C28_Witness ==
  /\ ModelAsked
  /\ aiIn.notesContent = "ff-transcript"
  /\ aiIn.sourceType = "Fireflies API"
  /\ StrLen(aiIn.notesContent) = 9000
  /\ aiRet.promptLen = 7000

\* C26: a GET /api/contacts answered with 200 after a sync run recorded
\* its completion marker carries that marker as lastSync; lastSync is
\* null only when no marker has been recorded.
C26_LastSyncIsRecordedMarker ==
  dashboard.status = 200 =>
    /\ dashboard.marker # 0 => dashboard.lastSync = dashboard.marker
    /\ dashboard.lastSync = 0 => dashboard.marker = 0

\* request p read the sheet while it was still empty
ReadEmpty(p) == ~readFailed[p] /\ existingContacts[p] = <<>>

\* the sheet holds no row for the address of the i-th row p wrote
Lost(p, i) ==
  \A j \in Rows(store) : store[j].email # written[p][i].email

\* C27: a store write puts the writer's rows, built from the writer's own
\* read, over the top of the range whatever the sheet holds by then, and
\* keeps only the rows below them; the sheet after the write is as long
\* as the longer of the two. When two runs have both read before either
\* wrote, a contact one of them wrote can be gone after both finished.
C27_LastWriterOverwrites ==
  [][\A p \in Requests :
       (~wrote[p] /\ wrote'[p]) =>
         /\ Len(store') = Max({Len(store), Len(written'[p])})
         /\ \A i \in Rows(store') :
              store'[i] = IF i <= Len(written'[p])
                          THEN written'[p][i] ELSE store[i]
         /\ \A i \in Rows(written'[p]) :
              \/ \E j \in Rows(existingContacts[p]) :
                   existingContacts[p][j].email = written'[p][i].email
              \/ written'[p][i].email \in Attendees(p)]_vars

\* both runs read the empty sheet, both wrote and succeeded, and the sheet
\* lacks a contact that one of them wrote
C27_Witness ==
  /\ Succeeded(1) /\ Succeeded(2)
  /\ wrote[1] /\ wrote[2]
  /\ ReadEmpty(1) /\ ReadEmpty(2)
  /\ \E p \in Requests : \E i \in Rows(written[p]) : Lost(p, i)

\* every attendee the events of request p list is excluded
NoOneObserved(p) == \A email \in Attendees(p) : shouldSkipEmail(email)

\* C29: a run that succeeded without observing a non-excluded attendee
\* has written no contact rows, has left the rows of the sheet as they
\* were, has recorded the completion marker and reports
\* contactsProcessed = 0.
C29_EmptyRunWritesOnlyMarker ==
  \A p \in Requests :
    (Succeeded(p) /\ NoOneObserved(p)) =>
      /\ ~wrote[p]
      /\ store = storeBefore[p]
      /\ summary[p].contactsProcessed = 0
      /\ recorded[p] # 0
      /\ lastSyncCell = recorded[p]

\* the address of the attendee the loops of request p are at
CurrentEmail(p) == calendarEvents[p][pos[p][1]].attendees[pos[p][2]]

\* the Map of request p has an entry for the address
InMap(p, email) ==
  \E i \in Rows(processedContacts[p]) : processedContacts[p][i].email = email

\* C30: the Map of a run never holds two entries for one address; a step
\* on an address that has an entry changes nothing but the lastMeeting of
\* that entry, which becomes the start of the event at hand, and makes no
\* new entry; only a step on an address without an entry adds one, for
\* that address, at the end.
C30_ExtractionOncePerEmail ==
  /\ [](\A p \in Requests :
          \A i, j \in Rows(processedContacts[p]) :
            i # j => processedContacts[p][i].email
                       # processedContacts[p][j].email)
  /\ [][\A p \in Requests :
          (pc[p] = "processing"
             /\ processedContacts'[p] # processedContacts[p]) =>
            LET old == processedContacts[p]
                new == processedContacts'[p]
                email == CurrentEmail(p)
                start == calendarEvents[p][pos[p][1]].start
            IN IF InMap(p, email)
               THEN /\ Len(new) = Len(old)
                    /\ \A i \in Rows(old) :
                         new[i] = IF old[i].email = email
                                  THEN [old[i] EXCEPT !.lastMeeting = start]
                                  ELSE old[i]
               ELSE /\ Len(new) = Len(old) + 1
                    /\ SubSeq(new, 1, Len(old)) = old
                    /\ new[Len(new)].email = email]_vars

\* an address on two events whose notes would give different insights:
\* the entry carries the first event's insight and the second's start
C30_Witness ==
  /\ pc[1] = "persisting"
  /\ existingContacts[1] = <<>>
  /\ Len(calendarEvents[1]) = 2
  /\ calendarEvents[1][1].start = 1
  /\ calendarEvents[1][2].start = 2
  /\ calendarEvents[1][1].attendees = <<"a@x.com">>
  /\ calendarEvents[1][2].attendees = <<"a@x.com">>
  /\ <<1, 1>> \in DOMAIN oracle
  /\ <<2, 1>> \in DOMAIN oracle
  /\ oracle[<<1, 1>>].reply.obj = I1
  /\ oracle[<<1, 1>>].ff = Text("ff-transcript")
  /\ oracle[<<2, 1>>].reply.obj = I2
  /\ oracle[<<2, 1>>].gm = Text("gm-recap")
  /\ Len(processedContacts[1]) = 1
  /\ processedContacts[1][1].status = I1.status
  /\ processedContacts[1][1].nextStep = I1.nextStep
  /\ processedContacts[1][1].notes = I1.notes
  /\ processedContacts[1][1].lastMeeting = 2

====
